---- MODULE Spec2Model ----
(***************************************************************************)
(* Model of the database backup tool (backup.py, with config.py and        *)
(* ssh_utils.py): the backup catalog read from a resource's directory, the *)
(* freshness gate, the rotation policy and the per-resource run loop of    *)
(* main().                                                                 *)
(*                                                                         *)
(* A file name is a sequence of one-character strings, so that the regular *)
(* expression and the strict date parse of parse_backup_date are computed  *)
(* and not assumed.  A date is a record [year, month, day]; date           *)
(* arithmetic goes through the proleptic Gregorian ordinal, as Python's    *)
(* datetime does.                                                          *)
(***************************************************************************)
EXTENDS Integers, Sequences, FiniteSets, TLC

VARIABLES
    pc,          \* position of main(): "main", "prereq", "ssh", "loop", "exit" (sys.exit
                 \* before the loop), "done" (end of main), "killed"; "rotate" in SpecRotate
    argv,        \* [arg, force]: sys.argv[1] and whether --force is given
    today,       \* datetime.now().date() of the current run
    files,       \* files[app]: the names present in BACKUPS_DIR/app
    partial,     \* partial[app]: names whose content an unsuccessful scp left behind
    app_names,   \* the list main() loops over
    idx,         \* 1-based position of the loop in app_names
    results,     \* the results dict of main(): sequence of <<name, outcome>>
    exit_status, \* -1 while running, else the process exit status
    gate,        \* the last should_backup call: the directory it saw, force, its result
    catalog,     \* the catalog the last rotate_backups call read: names, newest first
    to_keep,     \* what that call keeps (every entry when it returns at line 81)
    to_delete,   \* to_delete of that call: sequence of names, in catalog order
    removed,     \* names os.remove was called on in that call, in order
    raised,      \* the exception the last backup_app / rotate_backups call raised, or ""
    rotated,     \* number of rotate_backups calls made so far
    unlinked,    \* unlinked[app]: every name os.remove has removed from the directory
    created,     \* created[app]: every name a successful scp has created
    runs         \* number of runs of main() started after the first

vars == <<pc, argv, today, files, partial, app_names, idx, results, exit_status,
          gate, catalog, to_keep, to_delete, removed, raised, rotated, unlinked,
          created, runs>>

-----------------------------------------------------------------------------
(* Program constants *)

\* backup.py:66  days_old <= 7
THRESHOLD_DAYS == 7
\* backup.py:80,87,92  the 4 most recent backups
KEEP_RECENT_short == 4 - 1

KEEP_RECENT == 4
\* backup.py:101  months_kept >= 12
MAX_MONTHS == 12
\* backup.py:97  timedelta(days=365)
CUTOFF_DAYS == 365

-----------------------------------------------------------------------------
(* Characters and dates *)

Digit == <<"0", "1", "2", "3", "4", "5", "6", "7", "8", "9">>

IsDigit(c) == \E i \in 1..10 : Digit[i] = c

DigitVal(c) == (CHOOSE i \in 1..10 : Digit[i] = c) - 1

Date(y, m, d) == [year |-> y, month |-> m, day |-> d]

IsLeap(y) == (y % 4 = 0) /\ ((y % 100 # 0) \/ (y % 400 = 0))

DaysInMonth(y, m) ==
    IF m = 2 THEN (IF IsLeap(y) THEN 29 ELSE 28)
    ELSE IF m \in {4, 6, 9, 11} THEN 30 ELSE 31

RECURSIVE DaysBeforeMonth(_, _)
DaysBeforeMonth(y, m) ==
    IF m <= 1 THEN 0 ELSE DaysBeforeMonth(y, m - 1) + DaysInMonth(y, m - 1)

DaysBeforeYear(y) ==
    (y - 1) * 365 + ((y - 1) \div 4) - ((y - 1) \div 100) + ((y - 1) \div 400)

\* date.toordinal(): date subtraction and comparison go through it
toordinal(dt) ==
    DaysBeforeYear(dt.year) + DaysBeforeMonth(dt.year, dt.month) + dt.day

\* (a - b).days
DaysBetween(a, b) == toordinal(a) - toordinal(b)

\* date.fromordinal(n), for n within the years the model uses
fromordinal(n) ==
    LET y == CHOOSE y \in 1..9999 :
                 DaysBeforeYear(y) < n /\ n <= DaysBeforeYear(y + 1)
        r == n - DaysBeforeYear(y)
        m == CHOOSE m \in 1..12 :
                 DaysBeforeMonth(y, m) < r
                 /\ r <= DaysBeforeMonth(y, m) + DaysInMonth(y, m)
    IN  Date(y, m, r - DaysBeforeMonth(y, m))

\* zero-padded decimal of width w, as strftime's %Y, %m, %d print it
RECURSIVE Decimal(_, _)
Decimal(n, w) ==
    IF w = 0 THEN << >> ELSE Decimal(n \div 10, w - 1) \o <<Digit[(n % 10) + 1]>>

\* strftime("%Y-%m-%d")
strftime(dt) ==
    Decimal(dt.year, 4) \o <<"-">> \o Decimal(dt.month, 2) \o <<"-">>
        \o Decimal(dt.day, 2)

\* f"{db_filename}.{today}"
backup_filename(db_filename, dt) == db_filename \o <<".">> \o strftime(dt)

-----------------------------------------------------------------------------
(* parse_backup_date *)

\* re.search(r'\.(\d{4}-\d{2}-\d{2})$', filename): the captured group, or << >>
\* when there is no match.  '$' matches at the end of the string and also just
\* before a newline that ends the string.
DateGroupAt(s, e) ==
    IF e >= 11
       /\ s[e - 10] = "."
       /\ \A i \in {e - 9, e - 8, e - 7, e - 6, e - 4, e - 3, e - 1, e} : IsDigit(s[i])
       /\ s[e - 5] = "-" /\ s[e - 2] = "-"
    THEN SubSeq(s, e - 9, e)
    ELSE << >>

re_search(filename) ==
    LET n == Len(filename)
    IN  IF n > 0 /\ filename[n] = "\n"
        THEN DateGroupAt(filename, n - 1)
        ELSE DateGroupAt(filename, n)

Num(s, a, b) ==
    LET RECURSIVE Val(_)
        Val(i) == IF i < a THEN 0 ELSE Val(i - 1) * 10 + DigitVal(s[i])
    IN  Val(b)

\* datetime.strptime(group, "%Y-%m-%d").date(): ValueError unless the digits
\* name a calendar date
strptime(g) ==
    LET y == Num(g, 1, 4)
        m == Num(g, 6, 7)
        d == Num(g, 9, 10)
    IN  IF y >= 1 /\ m >= 1 /\ m <= 12 /\ d >= 1 /\ d <= DaysInMonth(y, m)
        THEN [kind |-> "date", date |-> Date(y, m, d)]
        ELSE [kind |-> "ValueError"]

parse_backup_date(filename) ==
    LET g == re_search(filename)
    IN  IF g # << >> THEN strptime(g) ELSE [kind |-> "None"]

-----------------------------------------------------------------------------
(* get_existing_backups *)

RECURSIVE SetToSeq(_)
SetToSeq(S) ==
    IF S = {} THEN << >>
    ELSE LET x == CHOOSE x \in S : TRUE IN <<x>> \o SetToSeq(S \ {x})

Reverse(s) == [i \in 1..Len(s) |-> s[Len(s) + 1 - i]]

\* os.listdir(app_dir): the names in an order the file system chooses.  Two
\* opposite enumerations stand for that choice, so that entries of equal date
\* are seen in both orders.
listdir(dir, rev) == IF rev THEN Reverse(SetToSeq(dir)) ELSE SetToSeq(dir)

\* One step of the stable sort by date, newest first: e goes behind every
\* entry whose date is not older than its own.
InsertNewestFirst(sorted, e) ==
    LET k == Cardinality({i \in 1..Len(sorted) :
                             toordinal(sorted[i].date) >= toordinal(e.date)})
    IN  SubSeq(sorted, 1, k) \o <<e>> \o SubSeq(sorted, k + 1, Len(sorted))

RECURSIVE SortNewestFirst(_)
SortNewestFirst(lst) ==
    IF lst = << >> THEN << >>
    ELSE InsertNewestFirst(SortNewestFirst(SubSeq(lst, 1, Len(lst) - 1)),
                           lst[Len(lst)])

\* Whether parse_backup_date raises on some name of the directory
ListingRaises(dir) == \E f \in dir : parse_backup_date(f).kind = "ValueError"

\* The (f, date, path) tuples in listing order; path is f within the
\* resource's own directory and is not kept apart from it.
Dated(lst) ==
    LET RECURSIVE Go(_)
        Go(i) ==
            IF i = 0 THEN << >>
            ELSE LET p == parse_backup_date(lst[i])
                 IN  IF p.kind = "date"
                     THEN Go(i - 1) \o <<[f |-> lst[i], date |-> p.date]>>
                     ELSE Go(i - 1)
    IN  Go(Len(lst))

\* get_existing_backups(app_name) on a directory no name of which raises
get_existing_backups(dir, rev) == SortNewestFirst(Dated(listdir(dir, rev)))

Names(backups) == {backups[i].f : i \in 1..Len(backups)}

Names2(s) == {s[i] : i \in 1..Len(s)}

-----------------------------------------------------------------------------
(* should_backup *)

IsFresh_strict(days_old) == days_old < THRESHOLD_DAYS

\* days_old <= 7 (line 66)
IsFresh(days_old) == days_old <= THRESHOLD_DAYS

GateOn_oldest(backups, now) ==
    IF backups = << >> THEN [raised |-> "", ret |-> TRUE]
    ELSE [raised |-> "",
          ret |-> ~IsFresh(DaysBetween(now, backups[Len(backups)].date))]

\* Lines 60-70, with the catalog at hand
GateOn(backups, now) ==
    IF backups = << >> THEN [raised |-> "", ret |-> TRUE]
    ELSE [raised |-> "", ret |-> ~IsFresh(DaysBetween(now, backups[1].date))]

\* should_backup(app_name, force): ret is what it returns; raised is
\* "ValueError" when listing the directory raises, and then ret means nothing
should_backup(dir, force, now, rev) ==
    IF force THEN [raised |-> "", ret |-> TRUE]
    ELSE IF ListingRaises(dir) THEN [raised |-> "ValueError", ret |-> FALSE]
    ELSE GateOn(get_existing_backups(dir, rev), now)

-----------------------------------------------------------------------------
(* rotate_backups *)

MonthKey(e) == <<e.date.year, e.date.month>>

KeyLess(a, b) == a[1] < b[1] \/ (a[1] = b[1] /\ a[2] < b[2])

RECURSIVE KeysOldestFirst(_)
KeysOldestFirst(K) ==
    IF K = {} THEN << >>
    ELSE LET low == CHOOSE k \in K : \A j \in K : j = k \/ KeyLess(k, j)
         IN  <<low>> \o KeysOldestFirst(K \ {low})

\* sorted(monthly.keys(), reverse=True)
RECURSIVE KeysNewestFirst(_)
KeysNewestFirst(K) ==
    IF K = {} THEN << >>
    ELSE LET top == CHOOSE k \in K : \A j \in K : j = k \/ KeyLess(j, k)
         IN  <<top>> \o KeysNewestFirst(K \ {top})

\* monthly[month_key]: the entries of that month, in catalog order
MonthGroup(rest, key) == SelectSeq(rest, LAMBDA e : MonthKey(e) = key)

OldestOf_newest(group) ==
    LET i == CHOOSE i \in 1..Len(group) :
                 /\ \A j \in 1..Len(group) :
                        toordinal(group[i].date) >= toordinal(group[j].date)
                 /\ \A j \in 1..(i - 1) :
                        toordinal(group[j].date) < toordinal(group[i].date)
    IN  group[i]

\* sorted(monthly[month_key], key=lambda x: x[1])[0]: the first entry of the
\* group that carries the group's oldest date
OldestOf(group) ==
    LET i == CHOOSE i \in 1..Len(group) :
                 /\ \A j \in 1..Len(group) :
                        toordinal(group[i].date) <= toordinal(group[j].date)
                 /\ \A j \in 1..(i - 1) :
                        toordinal(group[j].date) > toordinal(group[i].date)
    IN  group[i]

\* Whether the month's oldest backup is inside the cutoff (line 108)
InsideCutoff(oldest, now) ==
    toordinal(oldest.date) >= toordinal(now) - CUTOFF_DAYS

MonthsFull_late(months_kept) == months_kept > MAX_MONTHS

\* Whether the loop over the months stops (line 101)
MonthsFull(months_kept) == months_kept >= MAX_MONTHS

\* The loop of lines 100-110: the names it adds to to_keep
RECURSIVE MonthlyKeep(_, _, _, _)
MonthlyKeep(keys, rest, months_kept, now) ==
    IF keys = << >> \/ MonthsFull(months_kept) THEN {}
    ELSE LET oldest == OldestOf(MonthGroup(rest, keys[1]))
         IN  IF InsideCutoff(oldest, now)
             THEN {oldest.f} \cup MonthlyKeep(Tail(keys), rest, months_kept + 1, now)
             ELSE MonthlyKeep(Tail(keys), rest, months_kept, now)

RecentKeep_tail(backups) ==
    {backups[i].f : i \in (Len(backups) - KEEP_RECENT + 1)..Len(backups)}

RecentKeep_three(backups) == {backups[i].f : i \in 1..(KEEP_RECENT - 1)}

\* The names of backups[:4] (lines 87-88)
RecentKeep(backups) == {backups[i].f : i \in 1..KEEP_RECENT}

Rest_skipping(backups) == SubSeq(backups, KEEP_RECENT + 2, Len(backups))

\* backups[4:]
Rest(backups) == SubSeq(backups, KEEP_RECENT + 1, Len(backups))

\* monthly.keys()
MonthKeys(rest) == {MonthKey(rest[i]) : i \in 1..Len(rest)}

\* Lines 90-110 on backups[4:]
MonthlyTier(rest, now) == MonthlyKeep(KeysNewestFirst(MonthKeys(rest)), rest, 0, now)

\* to_keep at line 112, for a catalog of more than 4 entries
ToKeep(backups, now) == RecentKeep(backups) \cup MonthlyTier(Rest(backups), now)

ToDelete_recentOnly(backups, keep) ==
    LET del == SelectSeq(backups, LAMBDA e : e.f \notin RecentKeep(backups))
    IN  [i \in 1..Len(del) |-> del[i].f]

\* to_delete at line 117: the names not in to_keep, in catalog order
ToDelete(backups, keep) ==
    LET del == SelectSeq(backups, LAMBDA e : e.f \notin keep)
    IN  [i \in 1..Len(del) |-> del[i].f]

\* Whether rotate_backups returns at line 81
NothingToRotate(backups) == Len(backups) <= KEEP_RECENT

\* The names os.remove is called on (lines 119-121) when the call on the
\* fail_at-th of them raises OSError; fail_at = 0 when none raises
RemoveCalls(del, fail_at) ==
    IF fail_at = 0 THEN del ELSE SubSeq(del, 1, fail_at)

\* The names those calls removed: all but the one that raised
Removed(del, fail_at) ==
    IF fail_at = 0 THEN Names2(del) ELSE Names2(SubSeq(del, 1, fail_at - 1))

SeqNames(backups) == [i \in 1..Len(backups) |-> backups[i].f]

\* Lines 117-121: the removal of to_delete
RemoveMarked(backups, keep, del, dir, fail_at) ==
    [raised |-> IF fail_at = 0 THEN "" ELSE "OSError",
     seen |-> SeqNames(backups), keep |-> keep, delete |-> del,
     calls |-> RemoveCalls(del, fail_at), dir |-> dir \ Removed(del, fail_at)]

\* Lines 112-121, with to_keep at hand
DeleteUnkept(backups, keep, dir, fail_at) ==
    RemoveMarked(backups, keep, ToDelete(backups, keep), dir, fail_at)

\* Lines 80-121, with the catalog at hand
RotateCatalog(backups, dir, now, fail_at) ==
    IF NothingToRotate(backups)
    THEN [raised |-> "", seen |-> SeqNames(backups), keep |-> Names(backups),
          delete |-> << >>, calls |-> << >>, dir |-> dir]
    ELSE DeleteUnkept(backups, ToKeep(backups, now), dir, fail_at)

\* rotate_backups(app_name) on a directory: what it read (seen), what it
\* decides (keep, delete), the os.remove calls it makes and the directory it
\* leaves.  raised is "" for a normal return.
rotate_backups(dir, now, rev, fail_at) ==
    IF ListingRaises(dir)
    THEN [raised |-> "ValueError", seen |-> << >>, keep |-> {},
          delete |-> << >>, calls |-> << >>, dir |-> dir]
    ELSE RotateCatalog(get_existing_backups(dir, rev), dir, now, fail_at)

-----------------------------------------------------------------------------
(* Configuration: config.py *)

database_db == <<"d", "a", "t", "a", "b", "a", "s", "e", ".", "d", "b">>

sevenhabits_db == <<"s", "e", "v", "e", "n", "h", "a", "b", "i", "t", "s", ".", "d", "b">>

\* APPS, in the order of the dict: the name and os.path.basename of its
\* db_remote_path.  The model carries the first two of the five applications.
APPS == << [name |-> "taskschedule",    db_filename |-> database_db],
           [name |-> "sevenhabitslist", db_filename |-> sevenhabits_db] >>

AppNames == {APPS[i].name : i \in 1..Len(APPS)}

get_app_config(name) == APPS[CHOOSE i \in 1..Len(APPS) : APPS[i].name = name]

-----------------------------------------------------------------------------
(* The directories and dates the checks start from *)

\* Largest number of names drawn from SmallNames
MaxEntries == 5
\* How many times rotate_backups is applied in a row
MaxRotations == 2

Db(y, m, d) == backup_filename(database_db, Date(y, m, d))

Nows == {Date(2024, 4, 1), Date(2024, 4, 15)}

\* The scenario of the specification (now = 2024-04-01)
ScenarioNames ==
    {Db(2024, 3, 29), Db(2024, 3, 22), Db(2024, 3, 15), Db(2024, 3, 1),
     Db(2024, 2, 10), Db(2024, 1, 20), Db(2024, 1, 5)}

\* 365 and 366 days before 2024-04-01
BoundaryNames == {Db(2023, 4, 2), Db(2023, 4, 1)}

\* A second file of the date 2024-01-05, under another base name
old_db_tie == backup_filename(<<"o", "l", "d", ".", "d", "b">>, Date(2024, 1, 5))

\* No date suffix
database_db_bak == database_db \o <<".", "b", "a", "k">>

\* A date suffix that is no calendar date
database_db_feb30 == Db(2024, 2, 30)

\* A date suffix followed by a newline
database_db_newline == Db(2024, 3, 29) \o <<"\n">>

AuxNames == {database_db_bak, database_db_feb30, database_db_newline}

SmallNames == ScenarioNames \cup BoundaryNames \cup {old_db_tie} \cup AuxNames

\* Four daily backups up to 2024-04-15
RecentNames == {Db(2024, 4, 15), Db(2024, 4, 14), Db(2024, 4, 13), Db(2024, 4, 12)}

\* One backup in each of thirteen months, all within 365 days of either now
ChainNames ==
    {Db(2024, 4, 1), Db(2024, 3, 1), Db(2024, 2, 10), Db(2024, 1, 5),
     Db(2023, 12, 1), Db(2023, 11, 1), Db(2023, 10, 1), Db(2023, 9, 1),
     Db(2023, 8, 1), Db(2023, 7, 1), Db(2023, 6, 1), Db(2023, 5, 1),
     Db(2023, 4, 20)}

\* 365 and 366 days before 2024-04-15, a second backup in January 2024, and
\* a file that is no backup
ChainExtras == {Db(2023, 4, 16), Db(2023, 4, 15), Db(2024, 1, 20), database_db_bak}

\* What the scenario is extended by: the entries 365 and 366 days old and the
\* second file of 2024-01-05
ScenarioExtras == BoundaryNames \cup {old_db_tie}

RotateDirs ==
    {D \in SUBSET SmallNames : Cardinality(D) <= MaxEntries}
    \cup {ScenarioNames \cup Y : Y \in SUBSET ScenarioExtras}
    \cup {RecentNames \cup (ChainNames \ X) \cup Y :
            X \in {{}} \cup {{n} : n \in ChainNames},
            Y \in SUBSET ChainExtras}

-----------------------------------------------------------------------------
(* The rotation policy on its own: rotate_backups applied to a directory,  *)
(* and applied again to what it left.                                      *)

TheApp == APPS[1].name

NoGate == [dir |-> {}, force |-> FALSE, ret |-> FALSE, seen |-> FALSE]

InitRotate ==
    /\ pc = "rotate"
    /\ argv = [arg |-> TheApp, force |-> FALSE]
    /\ today \in Nows
    /\ \E D \in RotateDirs : files = [a \in AppNames |-> IF a = TheApp THEN D ELSE {}]
    /\ partial = [a \in AppNames |-> {}]
    /\ app_names = <<TheApp>>
    /\ idx = 1
    /\ results = << >>
    /\ exit_status = -1
    /\ gate = NoGate
    /\ catalog = << >>
    /\ to_keep = {}
    /\ to_delete = << >>
    /\ removed = << >>
    /\ raised = ""
    /\ rotated = 0
    /\ unlinked = [a \in AppNames |-> {}]
    /\ created = [a \in AppNames |-> {}]
    /\ runs = 0

\* rotate_backups(TheApp), every os.remove succeeding
Rotate ==
    /\ pc = "rotate"
    /\ rotated < MaxRotations
    /\ raised = ""
    /\ \E rev \in BOOLEAN :
         LET r == rotate_backups(files[TheApp], today, rev, 0)
         IN  /\ raised' = r.raised
             /\ catalog' = r.seen
             /\ to_keep' = r.keep
             /\ to_delete' = r.delete
             /\ removed' = r.calls
             /\ files' = [files EXCEPT ![TheApp] = r.dir]
             /\ unlinked' = [unlinked EXCEPT ![TheApp] = @ \cup (files[TheApp] \ r.dir)]
    /\ rotated' = rotated + 1
    /\ UNCHANGED <<pc, argv, today, partial, app_names, idx, results,
                   exit_status, gate, created, runs>>

NextRotate == Rotate

SpecRotate == InitRotate /\ [][NextRotate]_vars

-----------------------------------------------------------------------------
(* backup_app *)

\* What can happen to the scp of lines 196-200.  "ok": it returns 0 and the
\* file is complete.  "failed": it returns non-zero.  "timeout":
\* subprocess.run raises TimeoutExpired after 60 s.  "interrupt": the operator
\* interrupts the run, KeyboardInterrupt.  scp writes to local_path itself, so
\* each of the last three either leaves what it had written there or nothing.
ScpOutcomes ==
    {[end |-> e, leftover |-> l] :
        e \in {"failed", "timeout", "interrupt"}, l \in BOOLEAN}
    \cup {[end |-> "ok", leftover |-> FALSE]}

\* The result of backup_app: ret is "None", "True" or "False"; raised names
\* the exception that left it instead, and then ret means nothing.  sb is what
\* should_backup answered, rot what rotate_backups did.
Outcome(ret, exc, dir, part, sb, rot) ==
    [ret |-> ret, raised |-> exc, dir |-> dir, partial |-> part, sb |-> sb,
     rot |-> rot]

NoRotation == [raised |-> "", seen |-> << >>, keep |-> {}, delete |-> << >>,
               calls |-> << >>, dir |-> {}, ran |-> FALSE]

Ran(r) == [raised |-> r.raised, seen |-> r.seen, keep |-> r.keep,
           delete |-> r.delete, calls |-> r.calls, dir |-> r.dir, ran |-> TRUE]

\* Where scp writes: local_path itself (lines 189-194)
ScpTarget(local_path) == local_path

\* Lines 203-209: the file is there, rotate_backups, return True
Saved(sb, r, part) ==
    Outcome("True", r.raised, r.dir, part \cap r.dir, sb, Ran(r))

\* Lines 196-200, for a download that did not end well
NotSaved(sb, scp, dir, part) ==
    IF scp.end = "failed" THEN Outcome("False", "", dir, part, sb, NoRotation)
    ELSE IF scp.end = "timeout"
         THEN Outcome("False", "TimeoutExpired", dir, part, sb, NoRotation)
    ELSE Outcome("False", "KeyboardInterrupt", dir, part, sb, NoRotation)

\* Lines 182-212, with local_path at hand
Download(sb, local_path, dir, part, now, scp, rev, fail_at) ==
    IF local_path \in dir THEN Outcome("None", "", dir, part, sb, NoRotation)
    ELSE IF scp.end = "ok"
         THEN Saved(sb, rotate_backups(dir \cup {local_path}, now, rev, fail_at), part)
    ELSE IF scp.leftover
         THEN NotSaved(sb, scp, dir \cup {ScpTarget(local_path)},
                       part \cup {ScpTarget(local_path)})
    ELSE NotSaved(sb, scp, dir, part)

\* Lines 158-212, with the answer of should_backup at hand
Gated(sb, db_filename, dir, part, now, remote, scp, rev, fail_at) ==
    IF sb.raised # "" THEN Outcome("False", sb.raised, dir, part, sb, NoRotation)
    ELSE IF ~sb.ret THEN Outcome("None", "", dir, part, sb, NoRotation)
    ELSE IF remote # "exists" THEN Outcome("False", "", dir, part, sb, NoRotation)
    ELSE Download(sb, backup_filename(db_filename, now), dir, part, now, scp, rev,
                  fail_at)

\* backup_app(app_name, force) on the directory dir with the partial files
\* part.  remote is the stdout of the remote test, scp the fate of the
\* download, rev the listing order, fail_at the os.remove call that raises.
\* Every application of APPS has a db_remote_path, so line 150 never returns.
backup_app(app_name, force, dir, part, now, remote, scp, rev, fail_at) ==
    Gated(should_backup(dir, force, now, rev), get_app_config(app_name).db_filename,
          dir, part, now, remote, scp, rev, fail_at)

\* The choices that can matter: no download is tried unless the remote file
\* is there, and nothing is listed or removed after a download that failed.
Downloads(remote) ==
    IF remote = "exists" THEN ScpOutcomes ELSE {[end |-> "ok", leftover |-> FALSE]}

Listings(scp) == IF scp.end = "ok" THEN BOOLEAN ELSE {FALSE}

\* The os.remove call that raises, 0 for none, among those a rotation of dir
\* after the download makes
FailAtsIn(d, now, scp, rev) ==
    IF scp.end # "ok" \/ ListingRaises(d) THEN {0}
    ELSE 0..Len(rotate_backups(d, now, rev, 0).delete)

FailAts(dir, name, now, scp, rev) ==
    FailAtsIn(dir \cup {backup_filename(get_app_config(name).db_filename, now)},
              now, scp, rev)

-----------------------------------------------------------------------------
(* main *)

\* Largest number of weekly backups a directory starts with
MaxInitBackups == 7

get_app_names_lenient(arg) ==
    IF arg \in AppNames THEN <<arg>> ELSE [i \in 1..Len(APPS) |-> APPS[i].name]

\* get_app_names(arg): the list, or << >> where it calls sys.exit(1)
get_app_names(arg) ==
    IF arg = "all" THEN [i \in 1..Len(APPS) |-> APPS[i].name]
    ELSE IF arg \notin AppNames THEN << >>
    ELSE <<arg>>

CaughtByMain_narrow(exc) == exc \in {"OSError", "TimeoutExpired"}

\* except Exception (line 245): the exceptions the loop of main() catches
CaughtByMain(exc) == exc \in {"ValueError", "OSError", "TimeoutExpired"}

ExitStatus_anyFalsy(res) ==
    IF \E i \in 1..Len(res) : res[i][2] # "True" THEN 1 ELSE 0

\* any(r is False for r in results.values()) -> sys.exit(1)  (lines 264-265)
ExitStatus(res) == IF \E i \in 1..Len(res) : res[i][2] = "False" THEN 1 ELSE 0

\* The command lines of a run: sys.argv[1] and --force
Argvs ==
    {[arg |-> a, force |-> f] : a \in AppNames \cup {"all"}, f \in BOOLEAN}
    \cup {[arg |-> a, force |-> FALSE] : a \in {"", "--list", "bogus"}}

\* The last backup before the run
LastBackup == Date(2024, 3, 25)

\* The days of the run: 7 and 8 days after LastBackup
Todays == {Date(2024, 4, 1), Date(2024, 4, 2)}

\* k weekly backups of an application, the newest of LastBackup
Weekly(db_filename, k) ==
    {backup_filename(db_filename, fromordinal(toordinal(LastBackup) - 7 * i)) :
        i \in 0..(k - 1)}

\* Files of a directory that are no backups of the tool
StrayNames == {database_db_bak, database_db_feb30}

\* Largest number of files of other base names, dated 2024-04-02, that a
\* directory starts with
MaxSameDay == 4

copy_db(i) == <<"c", "o", "p", "y", Digit[i + 1], ".", "d", "b">>

\* k such files, with or without the backup of 2024-04-01
SameDay(k) == {backup_filename(copy_db(i), Date(2024, 4, 2)) : i \in 1..k}

SameDayDirs ==
    {SameDay(k) \cup W : k \in 1..MaxSameDay, W \in {{}, {Db(2024, 4, 1)}}}

InitFiles ==
    {[a \in AppNames |-> IF a = TheApp THEN D ELSE E] :
        D \in {Weekly(database_db, k) \cup Y :
                 k \in 0..MaxInitBackups, Y \in SUBSET StrayNames}
              \cup SameDayDirs,
        E \in {Weekly(sevenhabits_db, k) : k \in 0..1}}

Init ==
    /\ pc = "main"
    /\ argv \in Argvs
    /\ today \in Todays
    /\ files \in InitFiles
    /\ partial = [a \in AppNames |-> {}]
    /\ app_names = << >>
    /\ idx = 1
    /\ results = << >>
    /\ exit_status = -1
    /\ gate = NoGate
    /\ catalog = << >>
    /\ to_keep = {}
    /\ to_delete = << >>
    /\ removed = << >>
    /\ raised = ""
    /\ rotated = 0
    /\ unlinked = [a \in AppNames |-> {}]
    /\ created = [a \in AppNames |-> {}]
    /\ runs = 0

Untouched == UNCHANGED <<files, partial, gate, catalog, to_keep, to_delete,
                         removed, rotated, unlinked, created, runs>>

\* len(sys.argv) < 2: usage, sys.exit(1)  (lines 216-220)
Usage ==
    /\ pc = "main" /\ argv.arg = ""
    /\ pc' = "exit" /\ exit_status' = 1
    /\ Untouched
    /\ UNCHANGED <<argv, today, app_names, idx, results, raised>>

\* --list: list_backups(), sys.exit(0)  (lines 222-224, 124-142).  A
\* ValueError of get_existing_backups is caught nowhere and ends the process
\* with status 1.
ListBackups ==
    /\ pc = "main" /\ argv.arg = "--list"
    /\ pc' = "exit"
    /\ IF \E a \in AppNames : ListingRaises(files[a])
       THEN raised' = "ValueError" /\ exit_status' = 1
       ELSE raised' = "" /\ exit_status' = 0
    /\ Untouched
    /\ UNCHANGED <<argv, today, app_names, idx, results>>

\* app_names = get_app_names(sys.argv[1])  (line 226)
GetAppNames ==
    /\ pc = "main" /\ argv.arg \notin {"", "--list"}
    /\ LET names == get_app_names(argv.arg)
       IN  IF names = << >>
           THEN pc' = "exit" /\ exit_status' = 1 /\ UNCHANGED app_names
           ELSE pc' = "prereq" /\ app_names' = names /\ UNCHANGED exit_status
    /\ Untouched
    /\ UNCHANGED <<argv, today, idx, results, raised>>

\* check_prerequisites()  (lines 236-237; ssh_utils.py 37-51)
CheckPrerequisites ==
    /\ pc = "prereq"
    /\ \E ok \in BOOLEAN :
         IF ok THEN pc' = "ssh" /\ UNCHANGED exit_status
         ELSE pc' = "exit" /\ exit_status' = 1
    /\ Untouched
    /\ UNCHANGED <<argv, today, app_names, idx, results, raised>>

\* test_ssh_connection()  (lines 238-239; ssh_utils.py 54-65).  "timeout":
\* subprocess.run raises TimeoutExpired after 15 s, which nothing catches, and
\* the process ends with status 1.
TestSshConnection ==
    /\ pc = "ssh"
    /\ \E out \in {"ok", "failed", "timeout"} :
         IF out = "ok" THEN pc' = "loop" /\ UNCHANGED <<exit_status, raised>>
         ELSE /\ pc' = "exit" /\ exit_status' = 1
              /\ raised' = IF out = "timeout" THEN "TimeoutExpired" ELSE ""
    /\ Untouched
    /\ UNCHANGED <<argv, today, app_names, idx, results>>

\* Lines 244-247: what main() does with the outcome o of backup_app(name)
Record(name, o) ==
    /\ files' = [files EXCEPT ![name] = o.dir]
    /\ partial' = [partial EXCEPT ![name] = o.partial]
    /\ unlinked' = [unlinked EXCEPT ![name] = @ \cup (files[name] \ o.dir)]
    /\ gate' = [dir |-> files[name], force |-> argv.force, ret |-> o.sb.ret,
                seen |-> o.sb.raised = ""]
    /\ raised' = o.raised
    /\ created' = [created EXCEPT ![name] =
                       IF o.rot.ran
                       THEN @ \cup {backup_filename(get_app_config(name).db_filename, today)}
                       ELSE @]
    /\ IF o.rot.ran
       THEN /\ catalog' = o.rot.seen
            /\ to_keep' = o.rot.keep
            /\ to_delete' = o.rot.delete
            /\ removed' = o.rot.calls
            /\ rotated' = rotated + 1
       ELSE UNCHANGED <<catalog, to_keep, to_delete, removed, rotated>>
    /\ IF o.raised = "" \/ CaughtByMain(o.raised)
       THEN /\ results' = Append(results, <<name, IF o.raised = "" THEN o.ret ELSE "False">>)
            /\ idx' = idx + 1
            /\ pc' = "loop"
       ELSE /\ pc' = "killed"
            /\ UNCHANGED <<results, idx>>

\* One turn of the loop of lines 242-247: backup_app(name, force) and the
\* except clause around it
BackupAppOf(name) ==
    \E remote \in {"exists", ""} :
    \E scp \in Downloads(remote) :
    \E rev \in Listings(scp) :
    \E fail_at \in FailAts(files[name], name, today, scp, rev) :
        Record(name, backup_app(name, argv.force, files[name], partial[name],
                                today, remote, scp, rev, fail_at))

BackupApp ==
    /\ pc = "loop" /\ idx <= Len(app_names)
    /\ BackupAppOf(app_names[idx])
    /\ UNCHANGED <<argv, today, app_names, exit_status, runs>>

\* The summary and the exit status  (lines 249-265)
Summary ==
    /\ pc = "loop" /\ idx > Len(app_names)
    /\ pc' = "done"
    /\ exit_status' = ExitStatus(results)
    /\ Untouched
    /\ UNCHANGED <<argv, today, app_names, idx, results, raised>>

Next ==
    \/ Usage
    \/ ListBackups
    \/ GetAppNames
    \/ CheckPrerequisites
    \/ TestSshConnection
    \/ BackupApp
    \/ Summary

Spec == Init /\ [][Next]_vars

-----------------------------------------------------------------------------
(* Runs of main() one after another for one resource, never forced, on a   *)
(* clock that does not go back, the directory touched by nothing else.     *)

\* How many runs follow the first
MaxRuns == 2

\* Days between one run and the next
DaySteps == {0, 1, 7, 8}

\* Numbers of weekly backups the directory starts with
StartBackups == {0, 6}

InitRuns ==
    /\ pc = "main"
    /\ argv = [arg |-> TheApp, force |-> FALSE]
    /\ today \in Todays
    /\ \E k \in StartBackups :
          files = [a \in AppNames |->
                     IF a = TheApp THEN Weekly(database_db, k) ELSE {}]
    /\ partial = [a \in AppNames |-> {}]
    /\ app_names = << >>
    /\ idx = 1
    /\ results = << >>
    /\ exit_status = -1
    /\ gate = NoGate
    /\ catalog = << >>
    /\ to_keep = {}
    /\ to_delete = << >>
    /\ removed = << >>
    /\ raised = ""
    /\ rotated = 0
    /\ unlinked = [a \in AppNames |-> {}]
    /\ created = [a \in AppNames |-> {}]
    /\ runs = 0

\* python backup.py <app> again, the same day or later (lines 268-269): the
\* process starts anew, the directories are as the last run left them
NextRun ==
    /\ pc \in {"done", "exit", "killed"}
    /\ runs < MaxRuns
    /\ \E step \in DaySteps : today' = fromordinal(toordinal(today) + step)
    /\ pc' = "main"
    /\ app_names' = << >>
    /\ idx' = 1
    /\ results' = << >>
    /\ exit_status' = -1
    /\ raised' = ""
    /\ runs' = runs + 1
    /\ UNCHANGED <<argv, files, partial, gate, catalog, to_keep, to_delete,
                   removed, rotated, unlinked, created>>

NextRuns ==
    \/ GetAppNames
    \/ CheckPrerequisites
    \/ TestSshConnection
    \/ BackupApp
    \/ Summary
    \/ NextRun

SpecRuns == InitRuns /\ [][NextRuns]_vars

-----------------------------------------------------------------------------
(* Properties of the rotation policy *)

\* The names of a directory that carry a date: the catalog, as a set
DatedNames(dir) == {f \in dir : parse_backup_date(f).kind = "date"}

DateOf(f) == parse_backup_date(f).date

\* Age in days of a dated name on the day of the run
AgeDays(f) == DaysBetween(today, DateOf(f))

\* The names at positions >= 4 of the newest-first catalog the last rotation read
BeyondRecent == {catalog[i] : i \in 5..Len(catalog)}

\* What the monthly tier of the last rotation kept
MonthlyKept == BeyondRecent \cap to_keep

\* C1: every rotation splits the catalog it is given into a keep set and a
\* delete set that cover it and do not overlap, and removes no file that is
\* not an entry of that catalog.
C1_TotalPartition ==
    [][(rotated' = rotated + 1 /\ raised' = "")
         => LET before == files[TheApp]
                cat    == DatedNames(before)
            IN  /\ to_keep' \cup Names2(to_delete') = cat
                /\ to_keep' \cap Names2(to_delete') = {}
                /\ Len(to_delete') = Cardinality(Names2(to_delete'))
                /\ Names2(removed') \subseteq cat
                /\ before \ files'[TheApp] \subseteq cat
                /\ before \ files'[TheApp] = Names2(to_delete')]_vars

\* C1 witness: a rotation that kept some entries, deleted others and left a
\* file that is no catalog entry where it was
C1_Witness ==
    /\ rotated = 1 /\ raised = ""
    /\ Len(to_delete) >= 2
    /\ Cardinality(to_keep) > 4
    /\ database_db_bak \in files[TheApp]
    /\ unlinked[TheApp] = Names2(to_delete)

\* C3: rotating what a rotation kept, on the same day, keeps exactly that set
\* and deletes nothing.
C3_Idempotent ==
    [][(rotated >= 1 /\ raised = "" /\ rotated' = rotated + 1)
         => /\ raised' = ""
            /\ to_keep' = to_keep
            /\ to_delete' = << >>
            /\ removed' = << >>
            /\ files' = files]_vars

\* C3 witness: a second rotation, after a first one that deleted entries and
\* kept more than four
C3_Witness ==
    /\ rotated = 2 /\ raised = ""
    /\ unlinked[TheApp] # {}
    /\ Cardinality(to_keep) > 4
    /\ to_delete = << >>

\* C5: of the entries beyond the four newest, a rotation keeps at most 12,
\* none of them older than 365 days; an entry exactly 365 days old that is the
\* oldest of its month beyond the four newest is kept unless the 12 are used up.
C5_MonthlyTierBounded ==
    (rotated >= 1 /\ raised = "" /\ Len(catalog) > 4)
        => /\ Cardinality(MonthlyKept) <= 12
           /\ \A f \in MonthlyKept : AgeDays(f) <= 365
           /\ \A f \in BeyondRecent : AgeDays(f) >= 366 => f \notin to_keep
           /\ \A f \in BeyondRecent :
                  (/\ AgeDays(f) = 365
                   /\ \A g \in BeyondRecent \ {f} :
                          MonthKey([date |-> DateOf(g)]) = MonthKey([date |-> DateOf(f)])
                              => AgeDays(g) < 365
                   /\ Cardinality(MonthlyKept) < 12)
                      => f \in to_keep

\* C5 witness: the monthly tier kept 12 entries, one of them exactly 365 days
\* old, and deleted the rest
C5_Witness ==
    /\ rotated = 1 /\ raised = ""
    /\ Cardinality(MonthlyKept) = 12
    /\ \E f \in MonthlyKept : AgeDays(f) = 365
    /\ to_delete # << >>

\* C6: a rotation of a catalog of at most 4 entries keeps them all and
\* removes nothing, whatever their dates.
C6_SmallCatalogUntouched ==
    [][(rotated' = rotated + 1 /\ raised' = ""
        /\ Cardinality(DatedNames(files[TheApp])) <= 4)
         => /\ to_keep' = DatedNames(files[TheApp])
            /\ to_delete' = << >>
            /\ removed' = << >>
            /\ files' = files]_vars

\* C6 witness: a rotated catalog of exactly 4 entries, one of them older than
\* 365 days and two of them of the same month
C6_Witness ==
    /\ rotated = 1 /\ raised = ""
    /\ Len(catalog) = 4
    /\ to_keep = Names2(catalog)
    /\ \E f \in to_keep : AgeDays(f) > 365
    /\ \E f, g \in to_keep :
           f # g /\ MonthKey([date |-> DateOf(f)]) = MonthKey([date |-> DateOf(g)])

\* The calendar month of a dated name
MonthOf(f) == MonthKey([date |-> DateOf(f)])

\* The month group of an entry beyond the four newest
GroupOf(f) == {g \in BeyondRecent : MonthOf(g) = MonthOf(f)}

\* C13: beyond the four newest, a rotation keeps at most one entry of a
\* calendar month, one that carries the oldest date of its month group; a
\* group whose oldest entry is older than 365 days is deleted whole.  The
\* scenario of 2024-04-01 deletes 01-20 and nothing else.
C13_OldestOfMonth ==
    /\ []((rotated >= 1 /\ raised = "" /\ Len(catalog) > 4)
            => \A f \in BeyondRecent :
                  /\ Cardinality(GroupOf(f) \cap to_keep) <= 1
                  /\ f \in to_keep => \A g \in GroupOf(f) : AgeDays(g) <= AgeDays(f)
                  /\ (\E g \in GroupOf(f) : AgeDays(g) > 365)
                        => GroupOf(f) \cap to_keep = {})
    /\ [][(rotated = 0 /\ rotated' = 1 /\ today = Date(2024, 4, 1)
             /\ files[TheApp] = ScenarioNames)
            => /\ to_delete' = <<Db(2024, 1, 20)>>
               /\ to_keep' = ScenarioNames \ {Db(2024, 1, 20)}
               /\ files'[TheApp] = ScenarioNames \ {Db(2024, 1, 20)}]_vars

\* C13 witness: one rotation that kept one of two entries sharing the oldest
\* date of their month, and deleted a whole month group whose oldest entry is
\* 366 days old although another entry of it is 365 days old
C13_Witness ==
    /\ rotated = 1 /\ raised = ""
    /\ \E f, g \in BeyondRecent :
           /\ f # g /\ DateOf(f) = DateOf(g)
           /\ f \in to_keep /\ g \in unlinked[TheApp]
    /\ \E f, g \in BeyondRecent :
           /\ MonthOf(f) = MonthOf(g)
           /\ AgeDays(f) = 366 /\ AgeDays(g) = 365
           /\ {f, g} \subseteq unlinked[TheApp]

\* The months of the entries beyond the four newest
MonthsBeyond == {MonthOf(f) : f \in BeyondRecent}

\* Those whose every entry, hence whose oldest, is within 365 days
EligibleMonths ==
    {k \in MonthsBeyond : \A f \in BeyondRecent : MonthOf(f) = k => AgeDays(f) <= 365}

\* The 12 most recent of them
SlotMonths ==
    {k \in EligibleMonths :
        Cardinality({j \in EligibleMonths : KeyLess(k, j)}) < 12}

\* C14: the monthly tier keeps one entry of each of the 12 most recent months
\* whose oldest entry is within 365 days, and of no other month.
C14_TwelveMostRecentEligible ==
    (rotated >= 1 /\ raised = "" /\ Len(catalog) > 4)
        => /\ {MonthOf(f) : f \in MonthlyKept} = SlotMonths
           /\ Cardinality(MonthlyKept) = Cardinality(SlotMonths)

\* C14 witness: 13 months within the cutoff and one month beyond it; the
\* oldest of the 13 is deleted
C14_Witness ==
    /\ rotated = 1 /\ raised = ""
    /\ Cardinality(EligibleMonths) = 13
    /\ Cardinality(MonthlyKept) = 12
    /\ \E f \in unlinked[TheApp] :
           /\ MonthOf(f) \in EligibleMonths
           /\ \A k \in EligibleMonths : k = MonthOf(f) \/ KeyLess(MonthOf(f), k)

\* The names at positions 0-3 of the newest-first catalog
TopFour == {catalog[i] : i \in 1..4}

\* C15: a rotation of more than 4 entries keeps the four newest, whatever
\* their age and their months.
C15_FourNewestKept ==
    (rotated >= 1 /\ raised = "" /\ Len(catalog) > 4)
        => /\ TopFour \subseteq to_keep
           /\ TopFour \cap unlinked[TheApp] = {}
           /\ TopFour \subseteq files[TheApp]
           /\ \A f \in TopFour : \A g \in BeyondRecent : AgeDays(f) <= AgeDays(g)

\* C15 witness: the four newest hold an entry older than 365 days and two
\* entries of one month, and the fifth entry is deleted
C15_Witness ==
    /\ rotated = 1 /\ raised = ""
    /\ Len(catalog) > 4
    /\ \E f \in TopFour : AgeDays(f) > 365
    /\ \E f, g \in TopFour : f # g /\ MonthOf(f) = MonthOf(g)
    /\ to_delete # << >>

-----------------------------------------------------------------------------
(* Properties of a run of main() *)

\* Whether a name ends in a dot and a calendar date YYYY-MM-DD
EndsInDate(f) ==
    /\ DateGroupAt(f, Len(f)) # << >>
    /\ strptime(DateGroupAt(f, Len(f))).kind = "date"

LastResult == results[Len(results)]

\* C2: no entry of a catalog is a file that an unsuccessful transfer left.
C2_NoPartialEntry ==
    \A a \in AppNames : DatedNames(files[a]) \cap partial[a] = {}

\* C4: should_backup answers true when forced or when the catalog is empty,
\* and otherwise exactly when the newest entry is more than 7 days old.
C4_GateThreshold ==
    gate.seen
        => /\ (gate.force \/ DatedNames(gate.dir) = {}) => gate.ret
           /\ (~gate.force /\ DatedNames(gate.dir) # {})
                 => (gate.ret <=> \A f \in DatedNames(gate.dir) : AgeDays(f) > 7)
           /\ (~gate.force /\ \E f \in DatedNames(gate.dir) : AgeDays(f) \in 0..7)
                 => ~gate.ret

\* C4 witness: an unforced call on a catalog whose newest entry is exactly 7
\* days old, answered false
C4_Witness ==
    /\ gate.seen /\ ~gate.force /\ ~gate.ret
    /\ \E f \in DatedNames(gate.dir) : AgeDays(f) = 7
    /\ \A f \in DatedNames(gate.dir) : AgeDays(f) >= 7

\* What one turn of the loop must leave behind, for C7
C7_Turn ==
    (pc = "loop" /\ idx <= Len(app_names))
        => \/ /\ pc' = "killed"
              /\ raised' = "KeyboardInterrupt"
           \/ /\ pc' = "loop"
              /\ idx' = idx + 1
              /\ Len(results') = Len(results) + 1
              /\ SubSeq(results', 1, Len(results)) = results
              /\ results'[idx][1] = app_names[idx]
              /\ results'[idx][2] \in {"None", "True", "False"}
              /\ raised' # "" => results'[idx][2] = "False"
              /\ partial'[app_names[idx]] # partial[app_names[idx]]
                    => results'[idx][2] = "False"
              /\ results'[idx][2] = "True"
                    => backup_filename(get_app_config(app_names[idx]).db_filename, today)
                           \in created'[app_names[idx]] \ files[app_names[idx]]

\* C7: every resource of the list gets exactly one outcome, in order; an
\* exception while one is processed is recorded as its failure and the loop
\* goes on to the next.
C7_EveryResourceRecorded ==
    /\ [](pc \in {"loop", "done"}
            => /\ Len(results) = idx - 1
               /\ \A i \in 1..Len(results) : results[i][1] = app_names[i])
    /\ [](pc = "done" => Len(results) = Len(app_names))
    /\ [][C7_Turn]_vars

\* C7 witness: a finished run over two resources in which the first raised an
\* exception and the second was backed up
C7_Witness ==
    /\ pc = "done"
    /\ Len(app_names) = 2 /\ Len(results) = 2
    /\ results[1][2] = "False" /\ results[2][2] = "True"
    /\ \E f \in files[app_names[1]] : parse_backup_date(f).kind = "ValueError"

\* C8: a file whose name does not end in a dot and a calendar date never
\* makes listing fail, is never an entry of a catalog and is never removed.
C8_StraysSilentlyExcluded ==
    /\ raised # "ValueError"
    /\ \A i \in 1..Len(catalog) : EndsInDate(catalog[i])
    /\ \A a \in AppNames : \A f \in unlinked[a] : EndsInDate(f)

\* C9: at the end of main() the exit status is non-zero exactly when some
\* resource's outcome is a failure.
C9_ExitStatus ==
    pc = "done"
        => /\ exit_status \in {0, 1}
           /\ exit_status # 0 <=> \E i \in 1..Len(results) : results[i][2] = "False"

\* C9 witness: a finished run with a skipped resource, a backed-up resource
\* and exit status 0
C9_Witness ==
    /\ pc = "done" /\ exit_status = 0
    /\ \E i \in 1..Len(results) : results[i][2] = "None"
    /\ \E i \in 1..Len(results) : results[i][2] = "True"

\* C10: os.remove is called on every entry of the delete set, and a failed
\* removal is recorded as the resource's failure.
C10_EveryDeletionRequested ==
    /\ Names2(removed) = Names2(to_delete)
    /\ (raised = "OSError" /\ pc \in {"loop", "done"})
          => (results # << >> /\ LastResult[2] = "False")

\* The name backup_app downloads to for an application on the day of the run
LocalPath(a) == backup_filename(get_app_config(a).db_filename, today)

\* C11: a file leaves a directory only in the rotation that follows a
\* successful transfer for that resource; a step without a successful
\* transfer (listing, a skip, today's file present, a failed remote check or
\* transfer) leaves every directory as it was; a transfer never writes over
\* a file that was there.
C11_OnlyRotationChangesFiles ==
    [][\A a \in AppNames :
         /\ created'[a] = created[a] => files'[a] = files[a]
         /\ files[a] \ files'[a] # {}
               => /\ pc = "loop" /\ a = app_names[idx]
                  /\ created'[a] = created[a] \cup {LocalPath(a)}
                  /\ files[a] \ files'[a] \subseteq Names2(to_delete')
         /\ (created'[a] \ created[a]) \cap files[a] = {}
         /\ files'[a] \ files[a] \subseteq {LocalPath(a)}]_vars

\* C12: an unknown resource name, a failed prerequisite check and a failed
\* connection test end the run with status 1 before the loop: no
\* should_backup call, no transfer, no rotation, and every directory as it was.
C12_AbortBeforeAnyResource ==
    /\ [](argv.arg \notin AppNames \cup {"all", "--list", ""}
             => pc \in {"main", "exit"})
    /\ []((pc = "exit" /\ argv.arg # "--list") => exit_status = 1)
    /\ [](pc \in {"main", "prereq", "ssh", "exit"}
             => /\ gate = NoGate /\ results = << >> /\ rotated = 0
                /\ \A a \in AppNames :
                       created[a] = {} /\ unlinked[a] = {} /\ partial[a] = {})
    /\ [][pc' \in {"main", "prereq", "ssh", "exit"} => files' = files]_vars
    /\ [][pc # "exit"]_vars

\* C12 witness: a forced run over every resource, with backups in the
\* directory, that the connection test ended by its timeout
C12_Witness ==
    /\ pc = "exit" /\ exit_status = 1
    /\ argv.arg = "all" /\ argv.force
    /\ raised = "TimeoutExpired"
    /\ files[TheApp] # {}
    /\ gate = NoGate /\ results = << >>

\* The outcome "True" recorded for the resource in turn, in the step taken
SavedInStep ==
    /\ pc = "loop" /\ idx <= Len(app_names) /\ pc' = "loop"
    /\ results'[idx][2] = "True"

\* The entries of a directory dated on the day of the run or later
NotOlderThanToday(dir) == {f \in DatedNames(dir) : AgeDays(f) <= 0}

NewestOrdinal(dir) ==
    IF DatedNames(dir) = {} THEN 0
    ELSE CHOOSE n \in {toordinal(DateOf(f)) : f \in DatedNames(dir)} :
             \A f \in DatedNames(dir) : toordinal(DateOf(f)) <= n

\* C17: over unforced runs on a clock that does not go back, any two entries
\* that successful transfers created are dated at least 8 days apart: an
\* entry is created only when the newest entry is more than 7 days old, and
\* no run leaves the directory with an older newest entry than it found.
C17_CreatedEightDaysApart ==
    /\ [](\A f, g \in created[TheApp] :
             f # g => \/ DaysBetween(DateOf(f), DateOf(g)) >= 8
                      \/ DaysBetween(DateOf(g), DateOf(f)) >= 8)
    /\ [][created'[TheApp] # created[TheApp]
            => /\ created'[TheApp] = created[TheApp] \cup {LocalPath(TheApp)}
               /\ \A f \in DatedNames(files[TheApp]) : AgeDays(f) > 7
               /\ LocalPath(TheApp) \in files'[TheApp]]_vars
    /\ [][NewestOrdinal(files'[TheApp]) >= NewestOrdinal(files[TheApp])]_vars

\* C17 witness: at the end of the last run two entries have been created, one
\* run has created none, and a rotation has removed an entry
C17_Witness ==
    /\ runs = MaxRuns /\ pc = "done"
    /\ Cardinality(created[TheApp]) = 2
    /\ unlinked[TheApp] # {}
    /\ created[TheApp] \subseteq files[TheApp]

====
